---- MODULE Spec2Model ----
(***************************************************************************)
(* Model of serial/port.c: the two lists of RFCOMM nodes (bound_nodes,     *)
(* connected_nodes), the node records, the main-loop IO watches, the       *)
(* D-Bus name listeners and the published object paths, and the functions  *)
(* that create and destroy nodes.                                          *)
(***************************************************************************)
EXTENDS Integers, Sequences, FiniteSets, TLC

\* Number of node records the process may allocate (g_new0) in one run.
MaxNodes == 2

\* RFCOMM device ids handed to port_register / port_add_listener.
Ids == {0, 1}

\* Bus names of the clients that request connections.
Owners == {"org.client.Y", "org.client.Z"}

Nodes == 1..MaxNodes

NULL == "NULL"

ENOENT == 2
EPERM == 1

SERIAL_MANAGER_PATH == "/org/bluez/serial"

\* snprintf(dev, sizeof(dev), "/dev/rfcomm%hd", id)
DevFmt(id) == "/dev/rfcomm" \o ToString(id)

\* snprintf(path, MAX_PATH_LENGTH, "%s/rfcomm%hd", SERIAL_MANAGER_PATH, id)
PathFmt(id) == SERIAL_MANAGER_PATH \o "/rfcomm" \o ToString(id)

\* Device names the callers pass: the names of the RFCOMM ttys.
Devs == {DevFmt(i) : i \in Ids}

\* Object paths a caller may pass to port_unregister; the last one does not
\* match the "rfcomm%hd" pattern.
Paths == {PathFmt(i) : i \in Ids} \cup {SERIAL_MANAGER_PATH \o "/other"}

\* sscanf(path, SERIAL_MANAGER_PATH"/rfcomm%hd", &id): the set of ids parsed
\* (empty when the conversion fails).
ScanId(path) == {i \in Ids : PathFmt(i) = path}

VARIABLES
    nodes,            \* struct rfcomm_node per allocated record (and its memory after g_free)
    connected_nodes,  \* GSList of connected nodes
    bound_nodes,      \* GSList of bound nodes
    io_watches,       \* nodes with a registered rfcomm_disconnect_cb IO watch
    name_listeners,   \* registered (name, connection_owner_exited, node) listeners, in order
    objects,          \* published object paths: path -> node given as user data
    crashed,          \* the process was killed by a memory error
    call,             \* the last function called, its arguments and its return value
    emitted,          \* device names of the ServiceDisconnected signals emitted by the last call
    released          \* ids passed to rfcomm_release by the last call

vars == <<nodes, connected_nodes, bound_nodes, io_watches, name_listeners,
          objects, crashed, call, emitted, released>>

\* g_new0 has not handed the record out yet.
FreshNode == [st |-> "unused", id |-> 0, device |-> NULL, owner |-> NULL,
              io |-> FALSE, rel |-> 0]

\* The program state as one record, so that the C functions compose; a call
\* starts with nothing emitted or released by it yet.
State == [nodes |-> nodes, connected_nodes |-> connected_nodes,
          bound_nodes |-> bound_nodes, io_watches |-> io_watches,
          name_listeners |-> name_listeners, objects |-> objects,
          crashed |-> crashed, emitted |-> <<>>, released |-> <<>>]

\* The contents of a freed record matter only while a name listener still
\* holds a pointer to it; otherwise nothing can read them again.
Dangling(s, n) == \E i \in 1..Len(s.name_listeners) : s.name_listeners[i][2] = n

Memory(s) ==
    [n \in Nodes |->
        IF s.nodes[n].st = "freed" /\ ~Dangling(s, n)
        THEN [FreshNode EXCEPT !.st = "freed", !.rel = s.nodes[n].rel]
        ELSE s.nodes[n]]

\* The state a call leaves behind.
Commit(s) ==
    /\ nodes' = Memory(s)
    /\ connected_nodes' = s.connected_nodes
    /\ bound_nodes' = s.bound_nodes
    /\ io_watches' = s.io_watches
    /\ name_listeners' = s.name_listeners
    /\ objects' = s.objects
    /\ crashed' = s.crashed
    /\ emitted' = s.emitted
    /\ released' = s.released

----------------------------------------------------------------------------
\* GLib list helpers.

RECURSIVE SeqRemove(_, _)
\* g_slist_remove: removes the first element equal to x, if any.
SeqRemove(seq, x) ==
    IF seq = <<>> THEN <<>>
    ELSE IF Head(seq) = x THEN Tail(seq)
    ELSE <<Head(seq)>> \o SeqRemove(Tail(seq), x)

g_slist_remove(list, node) == SeqRemove(list, node)

g_slist_append(list, node) == Append(list, node)

RECURSIVE FindFrom(_, _, _)
FindFrom(ns, list, dev) ==
    IF list = <<>> THEN 0
    ELSE IF ns[Head(list)].device = dev THEN Head(list)
    ELSE FindFrom(ns, Tail(list), dev)

\* find_node_by_name: the first node of the list whose device name is dev,
\* 0 (NULL) when there is none.
find_node_by_name(s, list, dev) == FindFrom(s.nodes, list, dev)

\* g_new0(struct rfcomm_node, 1): the next record never handed out.
NewNode(s) == CHOOSE n \in Nodes :
                 /\ s.nodes[n].st = "unused"
                 /\ \A m \in Nodes : m < n => s.nodes[m].st # "unused"

CanAlloc(s) == \E n \in Nodes : s.nodes[n].st = "unused"

----------------------------------------------------------------------------
\* Collaborators: the name listener table and the object path table.

\* name_listener_add: registers the callback for the bus name and returns 0,
\* or registers nothing and returns -1 when the bus refuses (ok = FALSE).
name_listener_add(s, name, node, ok) ==
    IF ok THEN [s |-> [s EXCEPT !.name_listeners = Append(@, <<name, node>>)],
                ret |-> 0]
    ELSE [s |-> s, ret |-> -1]

\* name_listener_remove: drops the callback registered for (name, node).
name_listener_remove(s, name, node) ==
    [s EXCEPT !.name_listeners = SeqRemove(@, <<name, node>>)]

\* dbus_connection_emit_signal(..., "ServiceDisconnected", device)
emit_signal(s, device) == [s EXCEPT !.emitted = Append(@, device)]

----------------------------------------------------------------------------
\* port.c

\* rfcomm_node_free
rfcomm_node_free(s, node) ==
    [s EXCEPT !.io_watches = IF s.nodes[node].io THEN @ \ {node} ELSE @,
              !.released = Append(@, s.nodes[node].id),
              !.nodes[node].st = "freed",
              !.nodes[node].rel = @ + 1]

\* connection_owner_exited without the ServiceDisconnected signal.
connection_owner_exited_silent(s, node) ==
    rfcomm_node_free([s EXCEPT !.connected_nodes = g_slist_remove(@, node)], node)

\* connection_owner_exited
connection_owner_exited(s, node) ==
    LET s1 == emit_signal(s, s.nodes[node].device)
        s2 == [s1 EXCEPT !.connected_nodes = g_slist_remove(@, node)]
    IN rfcomm_node_free(s2, node)

\* rfcomm_disconnect_cb
rfcomm_disconnect_cb(s, node) ==
    LET s1 == name_listener_remove(s, s.nodes[node].owner, node)
        s2 == emit_signal(s1, s.nodes[node].device)
        s3 == [s2 EXCEPT !.connected_nodes = g_slist_remove(@, node)]
    IN rfcomm_node_free(s3, node)

\* port_handler_unregister that only takes the node off the list.
port_handler_unregister_leak(s, node) ==
    [s EXCEPT !.bound_nodes = g_slist_remove(@, node)]

\* port_handler_unregister
port_handler_unregister(s, node) ==
    rfcomm_node_free([s EXCEPT !.bound_nodes = g_slist_remove(@, node)], node)

\* dbus_connection_create_object_path: publishes node at path; FALSE when the
\* path is already published or the bus library is out of memory (fail).
dbus_connection_create_object_path(s, path, node, fail) ==
    IF s.objects[path] # 0 \/ fail
    THEN [s |-> s, ok |-> FALSE]
    ELSE [s |-> [s EXCEPT !.objects[path] = node], ok |-> TRUE]

\* dbus_connection_destroy_object_path: unpublishes path and runs the
\* unregister handler given at creation on its user data, synchronously.
dbus_connection_destroy_object_path(s, path) ==
    IF s.objects[path] = 0 THEN s
    ELSE port_handler_unregister([s EXCEPT !.objects[path] = 0], s.objects[path])

\* port_add_listener; ok is the outcome of name_listener_add.
port_add_listener(s, id, dev, owner, ok) ==
    LET node == NewNode(s)
        s1 == [s EXCEPT !.nodes[node] = [st |-> "live", id |-> id, device |-> dev,
                                         owner |-> owner, io |-> TRUE, rel |-> 0],
                        !.io_watches = @ \cup {node},
                        !.connected_nodes = g_slist_append(@, node)]
        r == name_listener_add(s1, owner, node, ok)
    IN [s |-> r.s, ret |-> r.ret, node |-> node]

\* port_remove_listener without the comparison of the owner: any caller may
\* remove the node.
port_remove_listener_anyone(s, owner, dev) ==
    LET node == find_node_by_name(s, s.connected_nodes, dev)
    IN IF node = 0 THEN [s |-> s, ret |-> 0 - ENOENT, node |-> 0]
       ELSE LET s1 == name_listener_remove(s, owner, node)
                s2 == [s1 EXCEPT !.connected_nodes = g_slist_remove(@, node)]
            IN [s |-> rfcomm_node_free(s2, node), ret |-> 0, node |-> node]

\* port_remove_listener that looks the device up on both lists.
port_remove_listener_bothlists(s, owner, dev) ==
    LET node == find_node_by_name(s, s.connected_nodes \o s.bound_nodes, dev)
    IN IF node = 0 THEN [s |-> s, ret |-> 0 - ENOENT, node |-> 0]
       ELSE IF s.nodes[node].owner # owner
            THEN [s |-> s, ret |-> 0 - EPERM, node |-> node]
       ELSE LET s1 == name_listener_remove(s, owner, node)
                s2 == [s1 EXCEPT !.connected_nodes = g_slist_remove(@, node)]
            IN [s |-> rfcomm_node_free(s2, node), ret |-> 0, node |-> node]

\* port_remove_listener
port_remove_listener(s, owner, dev) ==
    LET node == find_node_by_name(s, s.connected_nodes, dev)
    IN IF node = 0 THEN [s |-> s, ret |-> 0 - ENOENT, node |-> 0]
       ELSE IF s.nodes[node].owner # owner
            THEN [s |-> s, ret |-> 0 - EPERM, node |-> node]
       ELSE LET s1 == name_listener_remove(s, owner, node)
                s2 == [s1 EXCEPT !.connected_nodes = g_slist_remove(@, node)]
            IN [s |-> rfcomm_node_free(s2, node), ret |-> 0, node |-> node]

RECURSIVE ReleaseLoop(_, _, _)
\* The loop of port_release_all over the cells l of the list, for at most
\* visits iterations.
ReleaseLoop(s, l, visits) ==
    IF l = <<>> \/ visits = 0 THEN s
    ELSE LET node == Head(l)
             s1 == [s EXCEPT !.connected_nodes = g_slist_remove(@, node)]
         IN ReleaseLoop(rfcomm_node_free(s1, node), Tail(l), visits - 1)

\* port_release_all.  Every iteration reads l->next from the list cell that
\* g_slist_remove has just freed: the loop goes on when the cell still holds
\* its old link, ends after visits iterations when the link reads as NULL,
\* and the process dies (crash) when it reads as anything else.
port_release_all(s, visits, crash) ==
    LET s1 == ReleaseLoop(s, s.connected_nodes, visits)
    IN [s1 EXCEPT !.crashed = crash]

\* port_register; fail1 and fail2 are the bus library running out of memory
\* in dbus_connection_create_object_path and dbus_connection_register_interface.
\* stage is the publication step that failed (0: none).
port_register(s, id, dev, fail1, fail2) ==
    LET node == NewNode(s)
        path == PathFmt(id)
        s1 == [s EXCEPT !.nodes[node] = [st |-> "live", id |-> id, device |-> dev,
                                         owner |-> NULL, io |-> FALSE, rel |-> 0]]
        c == dbus_connection_create_object_path(s1, path, node, fail1)
    IN IF ~c.ok
       THEN [s |-> rfcomm_node_free(s1, node), ret |-> -1, node |-> node,
             stage |-> 1]
       ELSE IF fail2
            THEN [s |-> dbus_connection_destroy_object_path(c.s, path),
                  ret |-> -1, node |-> node, stage |-> 2]
       ELSE [s |-> [c.s EXCEPT !.bound_nodes = g_slist_append(@, node)],
             ret |-> 0, node |-> node, stage |-> 0]

\* port_unregister
port_unregister(s, path) ==
    IF ScanId(path) = {} THEN [s |-> s, ret |-> 0 - ENOENT, node |-> 0]
    ELSE LET id == CHOOSE i \in ScanId(path) : TRUE
             dev == DevFmt(id)
             node == find_node_by_name(s, s.bound_nodes, dev)
         IN IF node = 0 THEN [s |-> s, ret |-> 0 - ENOENT, node |-> 0]
            ELSE [s |-> dbus_connection_destroy_object_path(s, path),
                  ret |-> 0, node |-> node]

RECURSIVE FireAll(_, _, _)
\* The name listener runs every callback registered for the name that left
\* the bus.  A callback whose node was already freed reads freed memory: it
\* either finds the old contents (stale) or kills the process.
FireAll(s, cbs, stale) ==
    IF cbs = <<>> THEN s
    ELSE IF s.nodes[Head(cbs)].st = "freed" /\ ~stale
         THEN [s EXCEPT !.crashed = TRUE]
    ELSE FireAll(connection_owner_exited(s, Head(cbs)), Tail(cbs), stale)

\* The listeners registered for name, in registration order.
ListenersOf(s, name) ==
    SelectSeq(s.name_listeners, LAMBDA e : e[1] = name)

\* name_exit_filter: the bus reports that name has no owner any more; every
\* callback registered for it fires once and the registrations are dropped.
name_owner_exited(s, name, stale) ==
    LET cbs == ListenersOf(s, name)
        s1 == FireAll(s, [i \in 1..Len(cbs) |-> cbs[i][2]], stale)
    IN [s1 EXCEPT !.name_listeners = SelectSeq(@, LAMBDA e : e[1] # name)]

----------------------------------------------------------------------------
\* The state machine: one action per entry point or callback.

NoCall == [op |-> "none", id |-> 0, dev |-> NULL, owner |-> NULL,
           path |-> NULL, node |-> 0, ret |-> 0, stage |-> 0]

Init ==
    /\ nodes = [n \in Nodes |-> FreshNode]
    /\ connected_nodes = <<>>
    /\ bound_nodes = <<>>
    /\ io_watches = {}
    /\ name_listeners = <<>>
    /\ objects = [p \in Paths |-> 0]
    /\ crashed = FALSE
    /\ call = NoCall
    /\ emitted = <<>>
    /\ released = <<>>

PortAddListener ==
    \E id \in Ids, dev \in Devs, owner \in Owners, ok \in BOOLEAN :
        /\ ~crashed
        /\ CanAlloc(State)
        /\ LET r == port_add_listener(State, id, dev, owner, ok)
           IN /\ Commit(r.s)
              /\ call' = [NoCall EXCEPT !.op = "port_add_listener", !.id = id,
                             !.dev = dev, !.owner = owner, !.node = r.node,
                             !.ret = r.ret]

PortRemoveListener ==
    \E owner \in Owners, dev \in Devs :
        /\ ~crashed
        /\ LET r == port_remove_listener(State, owner, dev)
           IN /\ Commit(r.s)
              /\ call' = [NoCall EXCEPT !.op = "port_remove_listener",
                             !.dev = dev, !.owner = owner, !.node = r.node,
                             !.ret = r.ret]

PortReleaseAll ==
    \E visits \in 0..Len(connected_nodes), crash \in BOOLEAN :
        /\ ~crashed
        /\ connected_nodes = <<>> => visits = 0 /\ ~crash
        /\ connected_nodes # <<>> => visits >= 1
        /\ Commit(port_release_all(State, visits, crash))
        /\ call' = [NoCall EXCEPT !.op = "port_release_all"]

PortRegister ==
    \E id \in Ids, dev \in Devs, fail1 \in BOOLEAN, fail2 \in BOOLEAN :
        /\ ~crashed
        /\ CanAlloc(State)
        /\ LET r == port_register(State, id, dev, fail1, fail2)
           IN /\ Commit(r.s)
              /\ call' = [NoCall EXCEPT !.op = "port_register", !.id = id,
                             !.dev = dev, !.path = PathFmt(id), !.node = r.node,
                             !.ret = r.ret, !.stage = r.stage]

PortUnregister ==
    \E path \in Paths :
        /\ ~crashed
        /\ LET r == port_unregister(State, path)
           IN /\ Commit(r.s)
              /\ call' = [NoCall EXCEPT !.op = "port_unregister",
                             !.path = path, !.node = r.node, !.ret = r.ret]

\* The IO watch of a node fires (G_IO_ERR | G_IO_NVAL | G_IO_HUP).
TransportHangup ==
    \E node \in io_watches :
        /\ ~crashed
        /\ Commit(rfcomm_disconnect_cb(State, node))
        /\ call' = [NoCall EXCEPT !.op = "rfcomm_disconnect_cb", !.node = node,
                       !.dev = nodes[node].device, !.owner = nodes[node].owner]

\* A bus name with registered listeners leaves the bus.
OwnerExited ==
    \E name \in Owners, stale \in BOOLEAN :
        /\ ~crashed
        /\ ListenersOf(State, name) # <<>>
        /\ Commit(name_owner_exited(State, name, stale))
        /\ call' = [NoCall EXCEPT !.op = "connection_owner_exited",
                       !.owner = name]

Next ==
    \/ PortAddListener
    \/ PortRemoveListener
    \/ PortReleaseAll
    \/ PortRegister
    \/ PortUnregister
    \/ TransportHangup
    \/ OwnerExited

Spec == Init /\ [][Next]_vars

----------------------------------------------------------------------------
\* Helpers of the properties.

\* The set of nodes on a list.
Members(list) == {list[i] : i \in 1..Len(list)}

\* How many elements of seq are x.
Count(seq, x) == Cardinality({i \in 1..Len(seq) : seq[i] = x})

\* The name listeners registered with node as user data.
ListenersFor(node) ==
    {i \in 1..Len(name_listeners) : name_listeners[i][2] = node}

\* The step is a call of the function op.
Called(op) == call'.op = op

\* Nothing but the record of the call changes.
NothingChanged ==
    /\ UNCHANGED <<nodes, connected_nodes, bound_nodes, io_watches,
                   name_listeners, objects, crashed>>
    /\ emitted' = <<>>
    /\ released' = <<>>

----------------------------------------------------------------------------
\* C1: rfcomm_release is called for the id of every node record exactly once,
\* when the record is destroyed, and never a second time: a record that was
\* not freed has no release, a freed record has exactly one.
C1_ReleasedExactlyOnce ==
    \A n \in Nodes :
        /\ nodes[n].st # "freed" => nodes[n].rel = 0
        /\ nodes[n].st = "freed" => nodes[n].rel = 1

\* C2: port_remove_listener called with the owner and the device name of a
\* connected node returns 0, removes the node from connected_nodes and emits
\* exactly one ServiceDisconnected signal, carrying that device name.
C2_DisconnectNotifiesOnce ==
    [][ \A n \in Members(connected_nodes) :
          (/\ Called("port_remove_listener")
           /\ nodes[n].owner = call'.owner
           /\ nodes[n].device = call'.dev
           /\ find_node_by_name(State, connected_nodes, call'.dev) = n)
          => /\ call'.ret = 0
             /\ n \notin Members(connected_nodes')
             /\ emitted' = <<call'.dev>> ]_vars

\* C3: port_remove_listener called with a name that is not the owner of the
\* connected node it finds returns -EPERM and changes nothing: the lists,
\* the node records, the IO watches, the name listeners and the object paths
\* stay as they were, no id is released and no signal is emitted.
C3_NonOwnerForbidden ==
    [][ LET n == find_node_by_name(State, connected_nodes, call'.dev)
        IN (/\ Called("port_remove_listener")
            /\ n # 0
            /\ nodes[n].owner # call'.owner)
           => /\ call'.ret = 0 - EPERM
              /\ NothingChanged ]_vars

\* C3 witness: a call by a stranger was refused while the node is connected.
C3_Witness ==
    /\ call.op = "port_remove_listener"
    /\ call.ret = 0 - EPERM
    /\ call.node \in Members(connected_nodes)
    /\ nodes[call.node].owner # call.owner
    /\ nodes[call.node].device = call.dev
    /\ call.node \in io_watches
    /\ ListenersFor(call.node) # {}

\* C4: port_release_all leaves connected_nodes empty with every node that was
\* on it freed, and leaves bound_nodes and every bound node as they were.
C4_ReleaseAllEmpties ==
    [][ Called("port_release_all")
        => /\ connected_nodes' = <<>>
           /\ \A n \in Members(connected_nodes) : nodes'[n].st = "freed"
           /\ bound_nodes' = bound_nodes
           /\ \A n \in Members(bound_nodes) : nodes'[n] = nodes[n] ]_vars

\* C5: port_release_all emits exactly one ServiceDisconnected signal for each
\* node that was on connected_nodes, carrying the device name of that node.
C5_ReleaseAllNotifiesEach ==
    [][ Called("port_release_all")
        => \A d \in Devs :
              Count(emitted', d) =
                 Cardinality({n \in Members(connected_nodes) : nodes[n].device = d}) ]_vars

RECURSIVE HangupEach(_, _)
\* The IO watch of every node of cbs fires, one node after the other.
HangupEach(s, cbs) ==
    IF cbs = <<>> THEN s
    ELSE HangupEach(rfcomm_disconnect_cb(s, Head(cbs)), Tail(cbs))

\* The nodes whose listener is registered for name, in registration order.
WatchedNodes(name) ==
    LET cbs == ListenersOf(State, name)
    IN [i \in 1..Len(cbs) |-> cbs[i][2]]

\* C6: the owner of connected nodes leaving the bus (connection_owner_exited
\* on each of its nodes) and the IO watch of the same nodes firing
\* (rfcomm_disconnect_cb) leave the same state behind and have the same
\* effect: every such node is off connected_nodes, one ServiceDisconnected
\* signal with its device name is emitted, its id is released once, and
\* neither its IO watch nor its name listener stays registered.
C6_SameTeardown ==
    \A name \in Owners :
        LET cbs == WatchedNodes(name)
            a == name_owner_exited(State, name, FALSE)
            b == HangupEach(State, cbs)
        IN (cbs # <<>> /\ \A i \in 1..Len(cbs) : nodes[cbs[i]].st = "live")
           => /\ a = b
              /\ Len(a.emitted) = Len(cbs)
              /\ Len(a.released) = Len(cbs)
              /\ \A i \in 1..Len(cbs) :
                    /\ cbs[i] \in Members(connected_nodes)
                    /\ cbs[i] \in io_watches
                    /\ cbs[i] \notin Members(a.connected_nodes)
                    /\ a.emitted[i] = nodes[cbs[i]].device
                    /\ a.released[i] = nodes[cbs[i]].id
                    /\ a.nodes[cbs[i]].rel = 1
                    /\ cbs[i] \notin a.io_watches
                    /\ ~Dangling(a, cbs[i])

\* C6 witness: the owner of a connected node has left the bus and its node was
\* torn down with one signal, while another node is still connected with both
\* of its watches, so that either trigger can fire on it.
C6_Witness ==
    /\ call.op = "connection_owner_exited"
    /\ Len(emitted) = 1
    /\ Len(released) = 1
    /\ ~crashed
    /\ \E n \in Members(connected_nodes) :
          n \in io_watches /\ ListenersFor(n) # {}

\* C7: when port_add_listener fails because name_listener_add fails, the node
\* is torn down: it is not on connected_nodes and its IO watch is not
\* registered.
C7_FailedConnectTornDown ==
    (call.op = "port_add_listener" /\ call.ret # 0)
    => /\ call.node \notin Members(connected_nodes)
       /\ call.node \notin io_watches

\* C8: when port_register fails at either publication step it returns a
\* failure, bound_nodes and connected_nodes are as before the call, and the id
\* passed in is released exactly once.
C8_FailedBindReleases ==
    [][ (Called("port_register") /\ call'.stage # 0)
        => /\ call'.ret # 0
           /\ bound_nodes' = bound_nodes
           /\ connected_nodes' = connected_nodes
           /\ released' = <<call'.id>>
           /\ nodes'[call'.node].st = "freed"
           /\ nodes'[call'.node].rel = 1 ]_vars

\* C8 witness: the interface registration failed after the object path was
\* created, while another node is bound.
C8_Witness ==
    /\ call.op = "port_register"
    /\ call.stage = 2
    /\ call.ret # 0
    /\ bound_nodes # <<>>
    /\ released = <<call.id>>
    /\ objects[call.path] = 0

\* C9: no node on bound_nodes has the device name of a node on
\* connected_nodes.
C9_DeviceInOneList ==
    \A b \in Members(bound_nodes), c \in Members(connected_nodes) :
        nodes[b].device # nodes[c].device

\* C10: every node on connected_nodes has exactly one name listener and
\* exactly one IO watch registered, and every node on bound_nodes has neither.
C10_WatchesOfNodes ==
    /\ \A c \in Members(connected_nodes) :
          Cardinality(ListenersFor(c)) = 1 /\ c \in io_watches
    /\ \A b \in Members(bound_nodes) :
          ListenersFor(b) = {} /\ b \notin io_watches

\* C11: once a node has been torn down, by port_remove_listener,
\* port_release_all, the exit of its owner or a hangup, neither its name
\* listener nor its IO watch is registered any more.
C11_NoWatchOnFreedNode ==
    \A n \in Nodes :
        nodes[n].st = "freed" => ListenersFor(n) = {} /\ n \notin io_watches

\* The nodes with a listener for name that were already freed.
StaleNodes(name) ==
    {n \in Nodes : nodes[n].st = "freed" /\ <<name, n>> \in Members(name_listeners)}

\* C12: a second teardown of a node that was already torn down (the listener
\* of its owner firing after the node was freed) releases no id again, emits
\* no second ServiceDisconnected signal and does not fail.
C12_TeardownIdempotent ==
    [][ (Called("connection_owner_exited") /\ StaleNodes(call'.owner) # {})
        => /\ \A n \in StaleNodes(call'.owner) : nodes'[n].rel = nodes[n].rel
           /\ Len(released') = Len(emitted')
           /\ Len(emitted') =
                 Cardinality({n \in Nodes : /\ nodes[n].st = "live"
                                            /\ <<call'.owner, n>> \in Members(name_listeners)})
           /\ ~crashed' ]_vars

\* C13: port_remove_listener for a device name that no node on
\* connected_nodes has returns -ENOENT and changes nothing, also when a node
\* on bound_nodes has that device name.
C13_UnknownDeviceNotFound ==
    [][ (/\ Called("port_remove_listener")
         /\ \A n \in Members(connected_nodes) : nodes[n].device # call'.dev)
        => /\ call'.ret = 0 - ENOENT
           /\ NothingChanged ]_vars

\* C13 witness: the call was refused with -ENOENT while a bound node has the
\* device name asked for and another device is connected.
C13_Witness ==
    /\ call.op = "port_remove_listener"
    /\ call.ret = 0 - ENOENT
    /\ \E b \in Members(bound_nodes) : nodes[b].device = call.dev
    /\ connected_nodes # <<>>
    /\ \A c \in Members(connected_nodes) : nodes[c].device # call.dev

\* The node on bound_nodes that port_register published at path, 0 if none.
BoundAt(path) ==
    IF \E b \in Members(bound_nodes) : PathFmt(nodes[b].id) = path
    THEN CHOOSE b \in Members(bound_nodes) : PathFmt(nodes[b].id) = path
    ELSE 0

\* C14: port_unregister acts on bound nodes only.  When it returns 0 the bound
\* node it found is off bound_nodes and its id was released once within the
\* call, with connected_nodes unchanged; for a path under which no bound node
\* was registered (also when a node with that device is only connected) it
\* returns -ENOENT and changes nothing.
C14_UnregisterBoundOnly ==
    [][ Called("port_unregister")
        => /\ call'.ret = 0
              => /\ call'.node \in Members(bound_nodes)
                 /\ bound_nodes' = g_slist_remove(bound_nodes, call'.node)
                 /\ released' = <<nodes[call'.node].id>>
                 /\ connected_nodes' = connected_nodes
           /\ BoundAt(call'.path) = 0
              => /\ call'.ret = 0 - ENOENT
                 /\ NothingChanged ]_vars

\* C15: find_node_by_name on the list a node is on, with the device name of
\* the node, returns that node; on the other list it returns NULL; and after
\* port_remove_listener has removed a node, its device name is not found on
\* connected_nodes.
C15_FindReturnsInserted ==
    /\ \A c \in Members(connected_nodes) :
          /\ find_node_by_name(State, connected_nodes, nodes[c].device) = c
          /\ find_node_by_name(State, bound_nodes, nodes[c].device) = 0
    /\ \A b \in Members(bound_nodes) :
          /\ find_node_by_name(State, bound_nodes, nodes[b].device) = b
          /\ find_node_by_name(State, connected_nodes, nodes[b].device) = 0
    /\ (call.op = "port_remove_listener" /\ call.ret = 0)
          => find_node_by_name(State, connected_nodes, call.dev) = 0

\* C16: a ServiceDisconnected signal is emitted only when a connected node is
\* torn down: port_unregister and port_register emit none, and every signal
\* carries the device name of a node that was on connected_nodes just before.
C16_SignalOnlyForConnected ==
    [][ /\ (Called("port_unregister") \/ Called("port_register"))
              => emitted' = <<>>
        /\ \A d \in Devs :
              Count(emitted', d) <=
                 Cardinality({n \in Members(connected_nodes) : nodes[n].device = d}) ]_vars

\* C17: after a successful port_register, port_unregister with the path it
\* returned succeeds and destroys exactly the node that port_register made,
\* whatever device name was given.
C17_BindUnregisterRoundTrip ==
    [][ (Called("port_unregister") /\ BoundAt(call'.path) # 0)
        => /\ call'.ret = 0
           /\ bound_nodes' = g_slist_remove(bound_nodes, BoundAt(call'.path))
           /\ nodes'[BoundAt(call'.path)].st = "freed"
           /\ \A n \in Nodes \ {BoundAt(call'.path)} : nodes'[n].st = nodes[n].st ]_vars

\* C18: no call releases an id that a node still on bound_nodes or
\* connected_nodes holds.
C18_LiveIdNotReleased ==
    \A i \in 1..Len(released) :
        \A n \in Members(bound_nodes) \cup Members(connected_nodes) :
            nodes[n].id # released[i]

\* C19: port_remove_listener(owner, dev) returns 0 whenever some node on
\* connected_nodes has that device name and that owner, also when another
\* connected node has the same device name and another owner.
C19_EveryOwnerCanDisconnect ==
    [][ (/\ Called("port_remove_listener")
         /\ \E n \in Members(connected_nodes) :
               nodes[n].device = call'.dev /\ nodes[n].owner = call'.owner)
        => call'.ret = 0 ]_vars

====
